---- MODULE Spec2Model ----
(***************************************************************************)
(* KZG polynomial commitments and the aggregatable subvector commitment    *)
(* (ASVC) built beside them: src/src/utils.rs, src/src/kzg.rs,             *)
(* src/src/asvc.rs, with src/src/main.rs as the driver.                    *)
(*                                                                         *)
(* The scalar field Fr of BLS12-381 is scaled down to the prime field      *)
(* F_17, whose multiplicative group has a 2-power subgroup of order 16     *)
(* (TWO_ADICITY = 4).  G1 and G2 are cyclic groups of that prime order, so *)
(* a group element is written as its discrete logarithm with respect to a  *)
(* fixed base point (an element of 0..P-1, the identity being 0), scalar   *)
(* multiplication is multiplication modulo P and the pairing of two        *)
(* elements is the product of their logarithms (the exponent of the        *)
(* target-group generator).                                                *)
(***************************************************************************)
EXTENDS Integers, Sequences, FiniteSets, TLC

VARIABLES kzg, asvc, call

vars == <<kzg, asvc, call>>

---------------------------------------------------------------------------
(* The scalar field. *)

P == 17

TWO_ADICITY == 4

TWO_ADIC_ROOT_OF_UNITY == 3

Field == 0 .. (P - 1)

FAdd(a, b) == (a + b) % P

FSub(a, b) == (a + P - b) % P

FNeg(a) == (P - a) % P

FMul(a, b) == (a * b) % P

RECURSIVE FPow(_, _)
FPow(x, e) == IF e = 0 THEN 1 ELSE FMul(x, FPow(x, e - 1))

\* Field::inverse of a non-zero element (None at zero is handled by callers).
FInv(a) == CHOOSE x \in 1 .. (P - 1) : FMul(x, a) = 1

\* Multiplicative order of a non-zero element.
Order(x) == CHOOSE k \in 1 .. (P - 1) :
              /\ FPow(x, k) = 1
              /\ \A j \in 1 .. (k - 1) : FPow(x, j) # 1

---------------------------------------------------------------------------
(* Outcomes of a call: a value, an Err(..) result, or a panic. *)

Ok(v) == [tag |-> "Ok", val |-> v]

Err(m) == [tag |-> "Err", val |-> m]

Panic == [tag |-> "Panic", val |-> "panic"]

IsOk(r) == r.tag = "Ok"

---------------------------------------------------------------------------
(* usize helpers used by get_omega. *)

RECURSIVE Pow2(_)
Pow2(e) == IF e = 0 THEN 1 ELSE 2 * Pow2(e - 1)

is_power_of_two(n) == \E e \in 0 .. 8 : Pow2(e) = n

next_power_of_two(n) == Pow2(CHOOSE e \in 0 .. 8 :
                               /\ Pow2(e) >= n
                               /\ \A f \in 0 .. (e - 1) : Pow2(f) < n)

\* ark_std::log2: the ceiling of the binary logarithm, 0 at 0.
log2(x) == IF x = 0 THEN 0
           ELSE CHOOSE e \in 0 .. 8 :
                  /\ Pow2(e) >= x
                  /\ \A f \in 0 .. (e - 1) : Pow2(f) < x

---------------------------------------------------------------------------
(* utils.rs: polynomials are coefficient sequences, lowest degree first.   *)
(* Sequence index k here is the code's index k-1.                          *)

add(p1, p2) ==
  LET n == IF Len(p1) >= Len(p2) THEN Len(p1) ELSE Len(p2)
  IN  [k \in 1 .. n |->
         FAdd(IF k <= Len(p1) THEN p1[k] ELSE 0,
              IF k <= Len(p2) THEN p2[k] ELSE 0)]

RECURSIVE SumF(_, _, _)
\* Sum over k in lo..hi of f[k], in the field.
SumF(f, lo, hi) == IF lo > hi THEN 0 ELSE FAdd(f[hi], SumF(f, lo, hi - 1))

mul(p1, p2) ==
  [k \in 1 .. (Len(p1) + Len(p2) - 1) |->
     LET lo == IF k - Len(p2) + 1 > 1 THEN k - Len(p2) + 1 ELSE 1
         hi == IF k < Len(p1) THEN k ELSE Len(p1)
     IN  SumF([i \in lo .. hi |-> FMul(p1[i], p2[k - i + 1])], lo, hi)]

RECURSIVE PopZeros(_)
\* while let Some(true) = remainder.last().map(|x| *x == E::ZERO) { pop }
PopZeros(r) == IF Len(r) > 0 /\ r[Len(r)] = 0
               THEN PopZeros(SubSeq(r, 1, Len(r) - 1))
               ELSE r

RECURSIVE DivLoop(_, _, _)
\* The while loop of div; the field division panics on a zero divisor.
DivLoop(quotient, remainder, p2) ==
  IF Len(remainder) < Len(p2) THEN Ok(quotient)
  ELSE IF p2[Len(p2)] = 0 THEN Panic
  ELSE LET coeff == FMul(remainder[Len(remainder)], FInv(p2[Len(p2)]))
           pos   == Len(remainder) - Len(p2)
           q2    == [quotient EXCEPT ![pos + 1] = coeff]
           r2    == [k \in 1 .. Len(remainder) |->
                       IF k > pos
                       THEN FSub(remainder[k], FMul(p2[k - pos], coeff))
                       ELSE remainder[k]]
       IN  DivLoop(q2, PopZeros(r2), p2)

div(p1, p2) ==
  IF Len(p2) = 0 \/ \A k \in 1 .. Len(p2) : p2[k] = 0
  THEN Err("Cannot divide by zero polynomial")
  ELSE IF Len(p1) < Len(p2) THEN Ok(<<0>>)
  ELSE DivLoop([k \in 1 .. (Len(p1) - Len(p2) + 1) |-> 0], p1, p2)

evaluate(poly, point) ==
  SumF([k \in 1 .. Len(poly) |-> FMul(poly[k], FPow(point, k - 1))],
       1, Len(poly))

RECURSIVE LagrangeNumerator(_, _, _)
\* numerator after the inner loop has visited j = 1..upto (skipping i).
LagrangeNumerator(points, i, upto) ==
  IF upto = 0 THEN <<1>>
  ELSE IF upto = i THEN LagrangeNumerator(points, i, upto - 1)
  ELSE mul(LagrangeNumerator(points, i, upto - 1), <<FNeg(points[upto]), 1>>)

RECURSIVE LagrangeDenominator_swapped(_, _, _)
\* LagrangeDenominator with the difference taken the wrong way round.
LagrangeDenominator_swapped(points, i, upto) ==
  IF upto = 0 THEN 1
  ELSE IF upto = i THEN LagrangeDenominator_swapped(points, i, upto - 1)
  ELSE FMul(LagrangeDenominator_swapped(points, i, upto - 1),
            FSub(points[upto], points[i]))

RECURSIVE LagrangeDenominator(_, _, _)
LagrangeDenominator(points, i, upto) ==
  IF upto = 0 THEN 1
  ELSE IF upto = i THEN LagrangeDenominator(points, i, upto - 1)
  ELSE FMul(LagrangeDenominator(points, i, upto - 1),
            FSub(points[i], points[upto]))

RECURSIVE InterpolateLoop(_, _, _)
\* result after the outer loop has visited i = 1..upto.
InterpolateLoop(points, values, upto) ==
  IF upto = 0 THEN [k \in 1 .. Len(points) |-> 0]
  ELSE LET numerator == LagrangeNumerator(points, upto, Len(points))
           denominator_inv ==
             FInv(LagrangeDenominator(points, upto, Len(points)))
           term == [k \in 1 .. Len(numerator) |->
                      FMul(FMul(numerator[k], values[upto]), denominator_inv)]
       IN  add(InterpolateLoop(points, values, upto - 1), term)

interpolate(points, values) ==
  IF Len(points) # Len(values)
  THEN Err("Number of points and values do not match")
  ELSE IF \E i \in 1 .. Len(points) :
            LagrangeDenominator(points, i, Len(points)) = 0
  THEN Panic   \* denominator.inverse().unwrap() on None
  ELSE Ok(InterpolateLoop(points, values, Len(points)))

RECURSIVE SquareTimes(_, _)
SquareTimes(x, times) ==
  IF times <= 0 THEN x ELSE SquareTimes(FMul(x, x), times - 1)

\* get_omega reads only the length of its slice.  The padding loop writes
\* coefficients[i] for i in len..num_coeffs, past the end of the vector.
get_omega(coefficients) ==
  LET len == Len(coefficients)
      n   == len - 1
  IN  IF len = 0 THEN Panic   \* usize underflow of len - 1
      ELSE IF ~is_power_of_two(n) /\ len < next_power_of_two(len)
      THEN Panic              \* index out of bounds in the padding loop
      ELSE Ok(SquareTimes(TWO_ADIC_ROOT_OF_UNITY, TWO_ADICITY - log2(len)))

\* The all-zero vector vec![E::ScalarField::ZERO; n] the callers pass.
Zeros(n) == [k \in 1 .. n |-> 0]

---------------------------------------------------------------------------
(* Groups and pairing (the ark_ec capability the schemes consume). *)

\* G1/G2 scalar multiplication: point.mul(scalar).
GMul(point, scalar) == FMul(point, scalar)

\* E::pairing(p, q), as the exponent of the target-group generator.
pairing(p, q) == FMul(p, q)

\* sum over i < n of crs[i] * poly[i] (the commitment loops of both schemes).
CommitWith(crs, poly, n) ==
  SumF([k \in 1 .. n |-> GMul(crs[k], poly[k])], 1, n)

RECURSIVE ZeroPoly_unnegated(_, _)
\* ZeroPoly whose loop multiplies by X + points[i] instead of X - points[i].
ZeroPoly_unnegated(points, upto) ==
  IF upto = 1 THEN <<FNeg(points[1]), 1>>
  ELSE mul(ZeroPoly_unnegated(points, upto - 1), <<points[upto], 1>>)

RECURSIVE ZeroPoly(_, _)
\* zero_poly after the loop has multiplied in points[1..upto].
ZeroPoly(points, upto) ==
  IF upto = 1 THEN <<FNeg(points[1]), 1>>
  ELSE mul(ZeroPoly(points, upto - 1), <<FNeg(points[upto]), 1>>)

\* Vec::resize(new_len, ZERO): truncate or pad with zeros.
resize(v, new_len) == [k \in 1 .. new_len |-> IF k <= Len(v) THEN v[k] ELSE 0]

---------------------------------------------------------------------------
(* kzg.rs *)

new(g1, g2, degree) ==
  [g1 |-> g1, g2 |-> g2, g2_tau |-> GMul(g2, 0), degree |-> degree,
   crs_g1 |-> <<>>, crs_g2 |-> <<>>]

\* setup pushes degree+1 further elements onto each reference string.
setup(k, secret) ==
  [k EXCEPT
     !.crs_g1 = @ \o [i \in 1 .. (k.degree + 1) |->
                        GMul(k.g1, FPow(secret, i - 1))],
     !.crs_g2 = @ \o [i \in 1 .. (k.degree + 1) |->
                        GMul(k.g2, FPow(secret, i - 1))],
     !.g2_tau = GMul(k.g2, secret)]

\* commit indexes crs_g1[i] and poly[i] for every i in 0..degree+1.
commit(k, poly) ==
  IF Len(k.crs_g1) < k.degree + 1 \/ Len(poly) < k.degree + 1
  THEN Panic
  ELSE Ok(CommitWith(k.crs_g1, poly, k.degree + 1))

\* open dividing by X + point instead of X - point.
open_unnegated(k, poly, point) ==
  IF Len(poly) = 0 THEN Panic
  ELSE LET value       == evaluate(poly, point)
           denominator == <<point, 1>>
           numerator   == [poly EXCEPT ![1] = FSub(poly[1], value)]
           quotient    == div(numerator, denominator)
       IN  IF ~IsOk(quotient) THEN Panic
           ELSE IF Len(quotient.val) > Len(k.crs_g1) THEN Panic
           ELSE Ok(CommitWith(k.crs_g1, quotient.val, Len(quotient.val)))

open(k, poly, point) ==
  IF Len(poly) = 0 THEN Panic   \* poly[0]
  ELSE LET value       == evaluate(poly, point)
           denominator == <<FNeg(point), 1>>
           numerator   == [poly EXCEPT ![1] = FSub(poly[1], value)]
           quotient    == div(numerator, denominator)
       IN  IF ~IsOk(quotient) THEN Panic   \* unwrap
           ELSE IF Len(quotient.val) > Len(k.crs_g1) THEN Panic
           ELSE Ok(CommitWith(k.crs_g1, quotient.val, Len(quotient.val)))

multi_open(k, poly, points) ==
  IF Len(points) = 0 THEN Panic   \* points[0]
  ELSE LET zero_poly == ZeroPoly(points, Len(points))
           values    == [i \in 1 .. Len(points) |-> evaluate(poly, points[i])]
           lagrange  == interpolate(points, values)
       IN  IF ~IsOk(lagrange) THEN Panic   \* unwrap
           ELSE LET lagrange_poly == resize(lagrange.val, Len(poly))
                    numerator == [i \in 1 .. Len(poly) |->
                                    FSub(poly[i], lagrange_poly[i])]
                    quotient  == div(numerator, zero_poly)
                IN  IF ~IsOk(quotient) THEN Panic   \* unwrap
                    ELSE IF Len(quotient.val) > Len(k.crs_g1) THEN Panic
                    ELSE Ok(CommitWith(k.crs_g1, quotient.val,
                                       Len(quotient.val)))

\* verify that forgets to take g1 * value off the commitment.
verify_value_dropped(k, point, value, commitment, pi) ==
  LET lhs == pairing(pi, FSub(k.g2_tau, GMul(k.g2, point)))
      rhs == pairing(commitment, k.g2)
  IN  lhs = rhs

verify(k, point, value, commitment, pi) ==
  LET lhs == pairing(pi, FSub(k.g2_tau, GMul(k.g2, point)))
      rhs == pairing(FSub(commitment, GMul(k.g1, value)), k.g2)
  IN  lhs = rhs

verify_multi(k, points, values, commitment, pi) ==
  IF Len(points) = 0 THEN Panic   \* points[0]
  ELSE LET zero_poly == ZeroPoly(points, Len(points))
           lagrange  == interpolate(points, values)
       IN  IF Len(zero_poly) > Len(k.crs_g2) THEN Panic
           ELSE IF ~IsOk(lagrange) THEN Panic   \* unwrap
           ELSE IF Len(lagrange.val) > Len(k.crs_g1) THEN Panic
           ELSE LET zero_commitment ==
                      CommitWith(k.crs_g2, zero_poly, Len(zero_poly))
                    lagrange_commitment ==
                      CommitWith(k.crs_g1, lagrange.val, Len(lagrange.val))
                    lhs == pairing(pi, zero_commitment)
                    rhs == pairing(FSub(commitment, lagrange_commitment), k.g2)
                IN  Ok(lhs = rhs)

---------------------------------------------------------------------------
(* asvc.rs *)

\* utils::scalar_mul: every coefficient of the polynomial times the scalar.
scalar_mul(poly, scalar) == [k \in 1 .. Len(poly) |-> FMul(poly[k], scalar)]

\* crs.iter().zip(poly.iter()).map(mul).fold(zero, add): stops at the shorter.
ZipCommit(crs, poly) ==
  CommitWith(crs, poly, IF Len(crs) < Len(poly) THEN Len(crs) ELSE Len(poly))

\* Width of the `as u32` cast.  For BLS12-381 the cast keeps 32 bits and
\* Fr::TWO_ADICITY is 32, so the largest subgroup get_omega can serve has
\* exactly 2^32 elements; the scaled field keeps the two equal.
U32_BITS == TWO_ADICITY

\* E::ScalarField::from(i as u32): the cast keeps the low bits of the usize.
FromU32(i) == (i % Pow2(U32_BITS)) % P

\* ai_numerator: X^degree - 1
AiNumerator(degree) ==
  [k \in 1 .. (degree + 1) |->
     IF k = degree + 1 THEN 1 ELSE IF k = 1 THEN FNeg(1) ELSE 0]

\* One pass of key_gen's loop, for the code's index i (0-based), with omega
\* the value get_omega returned: the polynomials a_i, l_i and u_i.
KeyGenPolys(degree, omega, i) ==
  LET ai_denominator == <<FNeg(FPow(omega, i)), 1>>
      ai_polynomial  == div(AiNumerator(degree), ai_denominator).val
      li_polynomial  ==
        scalar_mul(ai_polynomial,
                   FMul(FPow(omega, i), FInv(FromU32(degree))))
      ui_numerator   ==
        [li_polynomial EXCEPT ![1] = FSub(li_polynomial[1], 1)]
      ui_polynomial  == div(ui_numerator, ai_denominator).val
  IN  [ai |-> ai_polynomial, li |-> li_polynomial, ui |-> ui_polynomial]

key_gen(g1, g2, degree, secret) ==
  LET crs_g1 == [i \in 1 .. (degree + 1) |-> GMul(g1, FPow(secret, i - 1))]
      crs_g2 == [i \in 1 .. (degree + 1) |-> GMul(g2, FPow(secret, i - 1))]
      a_commitment ==
        FAdd(GMul(crs_g1[degree + 1], 1), GMul(crs_g1[1], FNeg(1)))
      omega == get_omega(Zeros(degree))
  IN  IF degree > 0 /\ ~IsOk(omega) THEN Panic
      ELSE IF degree > 0 /\ FromU32(degree) = 0 THEN Panic  \* div by zero
      ELSE
        LET polys == [i \in 1 .. degree |->
                        KeyGenPolys(degree, omega.val, i - 1)]
            update_key ==
              [ai_commitment |->
                 [i \in 1 .. degree |-> ZipCommit(crs_g1, polys[i].ai)],
               ui_commitment |->
                 [i \in 1 .. degree |-> ZipCommit(crs_g1, polys[i].ui)]]
            crs == [g1 |-> crs_g1, g2 |-> crs_g2]
        IN  Ok([degree |-> degree,
                update_key |-> update_key,
                proving_key |->
                  [crs |-> crs, update_key |-> update_key,
                   li_commitment |->
                     [i \in 1 .. degree |-> ZipCommit(crs_g1, polys[i].li)]],
                verification_key |->
                  [crs |-> crs, a_commitment |-> a_commitment]])

vector_commit(a, vector) ==
  IF Len(vector) # Len(a.proving_key.li_commitment) THEN Panic   \* assert_eq!
  ELSE Ok(CommitWith(a.proving_key.li_commitment, vector, Len(vector)))

RECURSIVE IndexProduct(_, _, _)
\* The denominator loop shared by prove_position, verify_position and
\* aggregate_proofs: it starts from X - omega^indices[0] and, for the loop
\* variable i in 1..indices.len(), multiplies by X - omega^i.
\* `upto` is the number of factors built so far.
IndexProduct(omega, indices, upto) ==
  IF upto = 1 THEN <<FNeg(FPow(omega, indices[1])), 1>>
  ELSE mul(IndexProduct(omega, indices, upto - 1),
           <<FNeg(FPow(omega, upto - 1)), 1>>)

\* prove_position's denominator, built from get_omega of the vector's length.
prove_denominator(indices, vector) ==
  LET omega == get_omega(Zeros(Len(vector)))
  IN  IF ~IsOk(omega) \/ Len(indices) = 0 THEN Panic
      ELSE Ok(IndexProduct(omega.val, indices, Len(indices)))

prove_position(a, indices, vector) ==
  LET points    == [i \in 1 .. Len(vector) |-> FromU32(i - 1)]
      numerator == interpolate(points, vector)
      denominator == prove_denominator(indices, vector)
  IN  IF ~IsOk(numerator) \/ ~IsOk(denominator) THEN Panic
      ELSE LET quotient == div(numerator.val, denominator.val)
           IN  IF ~IsOk(quotient) THEN Panic   \* unwrap
               ELSE IF Len(quotient.val) > Len(a.proving_key.crs.g1)
               THEN Panic
               ELSE Ok(CommitWith(a.proving_key.crs.g1, quotient.val,
                                  Len(quotient.val)))

\* verify_position's denominator, built from get_omega of the subvector's
\* length.
verify_denominator(indices, subvector) ==
  LET omega == get_omega(Zeros(Len(subvector)))
  IN  IF ~IsOk(omega) \/ Len(indices) = 0 THEN Panic
      ELSE Ok(IndexProduct(omega.val, indices, Len(indices)))

verify_position(a, commitment, indices, subvector, pi) ==
  LET denominator   == verify_denominator(indices, subvector)
      indices_field == [k \in 1 .. Len(indices) |-> FromU32(indices[k])]
      remainder     == interpolate(indices_field, subvector)
  IN  IF ~IsOk(denominator) THEN Panic
      ELSE IF Len(denominator.val) > Len(a.verification_key.crs.g2)
      THEN Panic
      ELSE IF ~IsOk(remainder) THEN Panic   \* unwrap
      ELSE IF Len(remainder.val) > Len(a.verification_key.crs.g1) THEN Panic
      ELSE
        LET denominator_commitment ==
              CommitWith(a.verification_key.crs.g2, denominator.val,
                         Len(denominator.val))
            remainder_commitment ==
              CommitWith(a.verification_key.crs.g1, remainder.val,
                         Len(remainder.val))
            lhs == pairing(pi, denominator_commitment)
            rhs == pairing(FSub(commitment, remainder_commitment),
                           a.verification_key.crs.g2[1])
        IN  Ok(lhs = rhs)

\* aggregate_proofs' A(X), built from get_omega of the number of indices.
aggregate_a_polynomial(indices) ==
  LET omega == get_omega(Zeros(Len(indices)))
  IN  IF ~IsOk(omega) \/ Len(indices) = 0 THEN Panic
      ELSE Ok(IndexProduct(omega.val, indices, Len(indices)))

aggregate_proofs(a, indices, proofs) ==
  IF Len(indices) # Len(proofs) THEN Panic   \* assert_eq!
  ELSE
    LET a_polynomial == aggregate_a_polynomial(indices)
    IN  IF ~IsOk(a_polynomial) THEN Panic
        ELSE
          LET omega == get_omega(Zeros(Len(indices))).val
              a_derivative ==
                [k \in 1 .. (Len(a_polynomial.val) - 1) |->
                   FMul(a_polynomial.val[k + 1], FromU32(k))]
          IN  Ok(SumF([k \in 1 .. Len(indices) |->
                         GMul(proofs[k],
                              evaluate(a_derivative,
                                       FPow(omega, indices[k])))],
                      1, Len(indices)))

---------------------------------------------------------------------------
(* Inputs. *)

\* Longest coefficient vector handed to the polynomial helpers.
MaxPolyLen == 3

\* Largest degree of a KZG instance.
MaxDegree == 2

\* How many times setup is called on one instance.
MaxSetups == 2

\* Longest index list handed to the ASVC operations.
MaxIndices == 3

\* Coefficients of the polynomials and entries of the vectors drawn.
PolyCoeffs == {0, 1, P - 1}

VectorEntries == {1, 3, 4}

\* Evaluation points, the secrets among them.
Points == {0, 2, 5}

Secrets == {2, 5}

\* Pairs of generators (of G1, of G2) handed to new and key_gen; 0 is the
\* identity.
GenPairs == {<<2, 3>>, <<0, 3>>, <<2, 0>>}

\* ASVC degrees (powers of two).
Degrees == {1, 2, 4}

\* Values a caller may put in place of a true evaluation or vector entry.
TamperValues == {5}

SeqsOver(S, n) == [1 .. n -> S]

SeqsUpTo(S, n) == UNION {SeqsOver(S, k) : k \in 1 .. n}

DistinctSeqs(S, n) ==
  {s \in SeqsOver(S, n) : \A i, j \in 1 .. n : i < j => s[i] # s[j]}

DistinctSeqsUpTo(S, n) == UNION {DistinctSeqs(S, k) : k \in 1 .. n}

IsZeroPoly(q) == \A k \in 1 .. Len(q) : q[k] = 0

\* `values` with entry j replaced by w (j = 0: untouched).
Replace(values, j, w) ==
  [k \in 1 .. Len(values) |-> IF k = j THEN w ELSE values[k]]

Absent == "absent"

\* No call is in progress: the caller is between two calls.
Idle == [op |-> "idle"]

\* The call returns to its caller, which drops the result.
Return ==
  /\ call.op # "idle"
  /\ call' = Idle
  /\ UNCHANGED <<kzg, asvc>>

---------------------------------------------------------------------------
(* The polynomial helpers on their own. *)

InitPoly ==
  /\ kzg = Absent
  /\ asvc = Absent
  /\ call = Idle

\* div(mul(p1, p2), p2)
MulDiv ==
  /\ call.op = "idle"
  /\ \E p1 \in SeqsUpTo(PolyCoeffs, MaxPolyLen),
     p2 \in SeqsUpTo(PolyCoeffs, MaxPolyLen) :
    /\ call' = [op |-> "mul_div", p1 |-> p1, p2 |-> p2,
                product |-> mul(p1, p2),
                ret |-> div(mul(p1, p2), p2)]
    /\ UNCHANGED <<kzg, asvc>>

\* interpolate(points, [evaluate(poly, x) for x in points])
EvaluateInterpolate ==
  /\ call.op = "idle"
  /\ \E points \in SeqsUpTo(Points, MaxPolyLen) :
    \E poly \in SeqsUpTo(PolyCoeffs, MaxPolyLen) :
      LET values == [i \in 1 .. Len(points) |-> evaluate(poly, points[i])]
      IN  /\ call' = [op |-> "interpolate", points |-> points,
                      poly |-> poly, values |-> values,
                      ret |-> interpolate(points, values)]
          /\ UNCHANGED <<kzg, asvc>>

\* get_omega(&vec![ZERO; size])
GetOmega ==
  /\ call.op = "idle"
  /\ \E size \in 0 .. Pow2(TWO_ADICITY) :
    /\ call' = [op |-> "get_omega", size |-> size,
                ret |-> get_omega(Zeros(size))]
    /\ UNCHANGED <<kzg, asvc>>

NextPoly == MulDiv \/ EvaluateInterpolate \/ GetOmega \/ Return

SpecPoly == InitPoly /\ [][NextPoly]_vars

---------------------------------------------------------------------------
(* A KZG instance and the calls on it. *)

InitKZG ==
  /\ \E g \in GenPairs, degree \in 0 .. MaxDegree :
       kzg = new(g[1], g[2], degree)
  /\ asvc = Absent
  /\ call = Idle

Setup ==
  /\ call.op = "idle"
  /\ \E secret \in Secrets :
    /\ Len(kzg.crs_g1) < MaxSetups * (kzg.degree + 1)
    /\ kzg' = setup(kzg, secret)
    /\ call' = [op |-> "setup", secret |-> secret]
    /\ UNCHANGED asvc

Commit ==
  /\ call.op = "idle"
  /\ \E poly \in SeqsUpTo(PolyCoeffs, kzg.degree + 1) :
    /\ call' = [op |-> "commit", poly |-> poly, ret |-> commit(kzg, poly)]
    /\ UNCHANGED <<kzg, asvc>>

Open ==
  /\ call.op = "idle"
  /\ \E poly \in SeqsUpTo(PolyCoeffs, kzg.degree + 1), point \in Points :
    /\ call' = [op |-> "open", poly |-> poly, point |-> point,
                ret |-> open(kzg, poly, point)]
    /\ UNCHANGED <<kzg, asvc>>

MultiOpen ==
  /\ call.op = "idle"
  /\ \E poly \in SeqsOver(PolyCoeffs, kzg.degree + 1),
     points \in DistinctSeqsUpTo(Points, kzg.degree) :
    /\ call' = [op |-> "multi_open", poly |-> poly, points |-> points,
                ret |-> multi_open(kzg, poly, points)]
    /\ UNCHANGED <<kzg, asvc>>

\* commit, open, then verify against a claimed value (main.rs,
\* test_single_evaluation); a panic of commit or open ends the run.
Verify ==
  /\ call.op = "idle"
  /\ \E poly \in SeqsOver(PolyCoeffs, kzg.degree + 1), point \in Points,
     value \in Field :
    LET commitment == commit(kzg, poly)
        pi         == open(kzg, poly, point)
    IN  /\ call' = [op |-> "verify", poly |-> poly, point |-> point,
                    value |-> value, commitment |-> commitment, pi |-> pi,
                    ret |-> IF IsOk(commitment) /\ IsOk(pi)
                            THEN Ok(verify(kzg, point, value,
                                           commitment.val, pi.val))
                            ELSE Panic]
        /\ UNCHANGED <<kzg, asvc>>

\* commit, multi_open, then verify_multi against claimed values (main.rs,
\* test_multi_evaluation).
VerifyMulti ==
  /\ call.op = "idle"
  /\ \E poly \in SeqsOver(PolyCoeffs, kzg.degree + 1),
     points \in DistinctSeqsUpTo(Points, kzg.degree) :
    \E j \in 0 .. Len(points), w \in TamperValues :
      LET commitment == commit(kzg, poly)
          pi         == multi_open(kzg, poly, points)
          values     ==
            Replace([i \in 1 .. Len(points) |-> evaluate(poly, points[i])],
                    j, w)
      IN  /\ call' = [op |-> "verify_multi", poly |-> poly,
                      points |-> points, values |-> values,
                      commitment |-> commitment, pi |-> pi,
                      ret |-> IF IsOk(commitment) /\ IsOk(pi)
                              THEN verify_multi(kzg, points, values,
                                                commitment.val, pi.val)
                              ELSE Panic]
          /\ UNCHANGED <<kzg, asvc>>

NextKZG ==
  Setup \/ Commit \/ Open \/ MultiOpen \/ Verify \/ VerifyMulti \/ Return

SpecKZG == InitKZG /\ [][NextKZG]_vars

---------------------------------------------------------------------------
(* An ASVC instance and the calls on it. *)

Min(a, b) == IF a < b THEN a ELSE b

\* [vector[i] for i in indices]
Subvector(vector, indices) ==
  [k \in 1 .. Len(indices) |-> vector[indices[k] + 1]]

InitASVC ==
  /\ kzg = Absent
  /\ \E g \in GenPairs, degree \in Degrees, secret \in Secrets :
       /\ g[1] # 0 /\ g[2] # 0
       /\ asvc = key_gen(g[1], g[2], degree, secret).val
  /\ call = Idle

VectorCommit ==
  /\ call.op = "idle"
  /\ \E vector \in SeqsOver(VectorEntries, asvc.degree) :
       /\ call' = [op |-> "vector_commit", vector |-> vector,
                   ret |-> vector_commit(asvc, vector)]
       /\ UNCHANGED <<kzg, asvc>>

ProvePosition ==
  /\ call.op = "idle"
  /\ \E vector \in SeqsOver(VectorEntries, asvc.degree),
        indices \in DistinctSeqsUpTo(0 .. (asvc.degree - 1),
                                     Min(MaxIndices, asvc.degree)) :
       /\ call' = [op |-> "prove_position", indices |-> indices,
                   vector |-> vector,
                   denominator |-> prove_denominator(indices, vector),
                   ret |-> prove_position(asvc, indices, vector)]
       /\ UNCHANGED <<kzg, asvc>>

\* vector_commit, prove_position, then verify_position against a claimed
\* subvector (main.rs, test_vector_evaluation).
VerifyPosition ==
  /\ call.op = "idle"
  /\ \E vector \in SeqsOver(VectorEntries, asvc.degree),
        indices \in DistinctSeqsUpTo(0 .. (asvc.degree - 1),
                                     Min(MaxIndices, asvc.degree)) :
       \E j \in 0 .. Len(indices), w \in TamperValues :
         LET commitment == vector_commit(asvc, vector)
             pi         == prove_position(asvc, indices, vector)
             subvector  == Replace(Subvector(vector, indices), j, w)
         IN  /\ call' = [op |-> "verify_position", indices |-> indices,
                         vector |-> vector, subvector |-> subvector,
                         commitment |-> commitment, pi |-> pi,
                         denominator |->
                           verify_denominator(indices, subvector),
                         ret |-> IF IsOk(commitment) /\ IsOk(pi)
                                 THEN verify_position(asvc, commitment.val,
                                                      indices, subvector,
                                                      pi.val)
                                 ELSE Panic]
             /\ UNCHANGED <<kzg, asvc>>

\* One prove_position per index, aggregate_proofs, then verify_position of
\* the aggregate against the true subvector (main.rs,
\* test_proof_aggregation).
AggregateProofs ==
  /\ call.op = "idle"
  /\ \E vector \in SeqsOver(VectorEntries, asvc.degree),
        indices \in DistinctSeqsUpTo(0 .. (asvc.degree - 1),
                                     Min(MaxIndices, asvc.degree)) :
       LET commitment == vector_commit(asvc, vector)
           proofs == [k \in 1 .. Len(indices) |->
                        prove_position(asvc, <<indices[k]>>, vector)]
           ready  == IsOk(commitment)
                       /\ \A k \in 1 .. Len(indices) : IsOk(proofs[k])
           pi == IF ready
                 THEN aggregate_proofs(asvc, indices,
                        [k \in 1 .. Len(indices) |-> proofs[k].val])
                 ELSE Panic
       IN  /\ call' = [op |-> "aggregate_proofs", indices |-> indices,
                       vector |-> vector, proofs |-> proofs,
                       a_polynomial |-> aggregate_a_polynomial(indices),
                       ret |-> pi,
                       verified |->
                         IF IsOk(pi)
                         THEN verify_position(asvc, commitment.val, indices,
                                              Subvector(vector, indices),
                                              pi.val)
                         ELSE Panic]
           /\ UNCHANGED <<kzg, asvc>>

NextASVC ==
  VectorCommit \/ ProvePosition \/ VerifyPosition \/ AggregateProofs \/ Return

SpecASVC == InitASVC /\ [][NextASVC]_vars

---------------------------------------------------------------------------
(* Key generation followed by one vector commitment. *)

\* The power-of-two degrees for which the field has a subgroup of that
\* order: 1, 2, .. , 2^TWO_ADICITY.
KeyGenDegrees == {Pow2(e) : e \in 0 .. TWO_ADICITY}

\* Vectors of a given length: one entry everywhere but in one position
\* (where the entry may be the same, giving the constant vectors).
OnePositionVectors(len) ==
  {[k \in 1 .. len |-> IF k = j THEN w ELSE u] :
     <<j, u, w>> \in (1 .. len) \X VectorEntries \X VectorEntries}

InitKeyGen ==
  /\ kzg = Absent
  /\ asvc = Absent
  /\ call = Idle

\* ASVC::key_gen, then vector_commit on the instance it returned (main.rs,
\* test_vector_evaluation); a panic of key_gen ends the run.
KeyGenCommit ==
  /\ call.op = "idle"
  /\ \E g \in GenPairs, degree \in KeyGenDegrees, secret \in Secrets :
       LET key == key_gen(g[1], g[2], degree, secret)
       IN  \E vector \in OnePositionVectors(degree) :
             /\ call' = [op |-> "key_gen_commit", g1 |-> g[1], g2 |-> g[2],
                         degree |-> degree, secret |-> secret,
                         vector |-> vector, key |-> key,
                         ret |-> IF IsOk(key)
                                 THEN vector_commit(key.val, vector)
                                 ELSE Panic]
             /\ UNCHANGED <<kzg, asvc>>

NextKeyGen == KeyGenCommit \/ Return

SpecKeyGen == InitKeyGen /\ [][NextKeyGen]_vars

---------------------------------------------------------------------------
(* Properties of the polynomial helpers (SpecPoly). *)

Distinct(points) ==
  \A i, j \in 1 .. Len(points) : i < j => points[i] # points[j]

\* C6: for every p and every q that is not the zero polynomial (whatever its
\* length and its high-order zero coefficients), div(mul(p, q), q) returns
\* Ok with a quotient equal to p coefficient for coefficient.
C6_DivInvertsMul ==
  (call.op = "mul_div" /\ ~IsZeroPoly(call.p2))
    => (call.ret.tag = "Ok" /\ call.ret.val = call.p1)

\* C7: for k >= 1 pairwise distinct points and a polynomial p of degree < k,
\* interpolate(points, [evaluate(p, x) for x in points]) returns Ok with a
\* polynomial equal to p once trailing zeros of both are trimmed.
C7_InterpolationRoundTrip ==
  (/\ call.op = "interpolate"
   /\ Distinct(call.points)
   /\ Len(PopZeros(call.poly)) <= Len(call.points))
    => (/\ call.ret.tag = "Ok"
        /\ PopZeros(call.ret.val) = PopZeros(call.poly))

\* C7 witness: three distinct points and a polynomial of degree exactly 2
\* have been interpolated back.
C7_Witness ==
  /\ call.op = "interpolate"
  /\ Distinct(call.points)
  /\ Len(call.points) = 3
  /\ Len(PopZeros(call.poly)) = 3
  /\ call.ret.tag = "Ok"
  /\ call.ret.val = call.poly

\* C8: for every size from 1 to 2^TWO_ADICITY, get_omega on a slice of that
\* length returns, without failing, an element whose multiplicative order is
\* the smallest power of two >= size.
C8_RootOfUnityOrder ==
  (call.op = "get_omega" /\ call.size >= 1 /\ call.size <= Pow2(TWO_ADICITY))
    => (/\ call.ret.tag = "Ok"
        /\ Order(call.ret.val) = next_power_of_two(call.size))

---------------------------------------------------------------------------
(* Properties of a KZG instance (SpecKZG). *)

\* setup has run exactly once: the instance holds one reference string.
OneSetup == Len(kzg.crs_g1) = kzg.degree + 1

\* The secret of that setup, read back from g2_tau = g2 * secret.
SetupSecret == FMul(kzg.g2_tau, FInv(kzg.g2))

TrueValues(poly, points) ==
  [i \in 1 .. Len(points) |-> evaluate(poly, points[i])]

\* C3: after one setup on an instance of degree d, for every polynomial of
\* d+1 coefficients (leading ones may be zero) and every point z,
\* verify(z, evaluate(p, z), commit(p), open(p, z)) returns true.
C3_SingleCompleteness ==
  (/\ call.op = "verify"
   /\ OneSetup
   /\ Len(call.poly) = kzg.degree + 1
   /\ call.value = evaluate(call.poly, call.point))
    => (call.ret.tag = "Ok" /\ call.ret.val = TRUE)

\* C3 witness: a polynomial with a zero leading coefficient and a non-zero
\* quotient has been opened and verified with non-identity generators.
C3_Witness ==
  /\ call.op = "verify"
  /\ OneSetup
  /\ kzg.degree = 2
  /\ kzg.g1 # 0 /\ kzg.g2 # 0
  /\ call.poly[3] = 0 /\ call.poly[2] # 0
  /\ call.value = evaluate(call.poly, call.point)
  /\ call.pi.tag = "Ok" /\ call.pi.val # 0
  /\ call.ret.tag = "Ok" /\ call.ret.val = TRUE

\* C4: after one setup on an instance of degree d, for every polynomial of
\* d+1 coefficients and every list S of pairwise distinct points with
\* 1 <= |S| <= d, verify_multi(S, [evaluate(p, x) for x in S], commit(p),
\* multi_open(p, S)) returns true.
C4_BatchCompleteness ==
  (/\ call.op = "verify_multi"
   /\ OneSetup
   /\ Len(call.poly) = kzg.degree + 1
   /\ Distinct(call.points)
   /\ Len(call.points) >= 1 /\ Len(call.points) <= kzg.degree
   /\ call.values = TrueValues(call.poly, call.points))
    => (call.ret.tag = "Ok" /\ call.ret.val = TRUE)

\* C4 witness: two points of a degree-2 polynomial have been opened in one
\* proof that is not the identity, and verified.
C4_Witness ==
  /\ call.op = "verify_multi"
  /\ OneSetup
  /\ kzg.degree = 2
  /\ kzg.g1 # 0 /\ kzg.g2 # 0
  /\ Len(call.points) = 2
  /\ call.poly[3] # 0
  /\ call.values = TrueValues(call.poly, call.points)
  /\ call.pi.tag = "Ok" /\ call.pi.val # 0
  /\ call.ret.tag = "Ok" /\ call.ret.val = TRUE

\* Exactly one entry of `values` differs from the true evaluations.
OneEntryTampered(poly, points, values) ==
  Cardinality({i \in 1 .. Len(points) :
                 values[i] # evaluate(poly, points[i])}) = 1

\* C5: with non-identity generators and an honest commitment and proof,
\* verify returns false for every value other than evaluate(p, z), and
\* verify_multi returns false for every list of values that differs from the
\* true evaluations in exactly one entry, provided the setup secret is not
\* one of the points.
C5_TamperRejection ==
  /\ (/\ call.op = "verify"
      /\ OneSetup
      /\ kzg.g1 # 0 /\ kzg.g2 # 0
      /\ call.value # evaluate(call.poly, call.point))
       => (call.ret.tag = "Ok" /\ call.ret.val = FALSE)
  /\ (/\ call.op = "verify_multi"
      /\ OneSetup
      /\ kzg.g1 # 0 /\ kzg.g2 # 0
      /\ OneEntryTampered(call.poly, call.points, call.values)
      /\ \A i \in 1 .. Len(call.points) : call.points[i] # SetupSecret)
       => (call.ret.tag = "Ok" /\ call.ret.val = FALSE)

\* C5 witness: verify_multi has rejected two values of which one was
\* replaced, at points that do not include the secret.
C5_Witness ==
  /\ call.op = "verify_multi"
  /\ OneSetup
  /\ kzg.g1 # 0 /\ kzg.g2 # 0
  /\ Len(call.points) = 2
  /\ OneEntryTampered(call.poly, call.points, call.values)
  /\ \A i \in 1 .. Len(call.points) : call.points[i] # SetupSecret
  /\ call.ret.tag = "Ok" /\ call.ret.val = FALSE

\* C9: on a Ready instance of degree d, for every coefficient vector with
\* 1 <= poly.len() <= d+1, commit(poly) returns the sum over i < poly.len()
\* of crs_g1[i] * poly[i].
C9_CommitWithinBound ==
  (/\ call.op = "commit"
   /\ OneSetup
   /\ Len(call.poly) >= 1 /\ Len(call.poly) <= kzg.degree + 1)
    => (/\ call.ret.tag = "Ok"
        /\ call.ret.val = CommitWith(kzg.crs_g1, call.poly, Len(call.poly)))

\* generator * secret^0, .. , generator * secret^degree
PowersOf(generator, secret, degree) ==
  [i \in 1 .. (degree + 1) |-> GMul(generator, FPow(secret, i - 1))]

\* setup has run at least once.
Ready == Len(kzg.crs_g1) > 0

\* The reference strings hold exactly degree+1 elements each, the powers of
\* one secret, and g2_tau is the element of crs_g2 at the code's index 1
\* (g2 * secret, which is what an instance of degree 0 is held to).
ReferenceStringOfOneSecret ==
  /\ Len(kzg.crs_g1) = kzg.degree + 1
  /\ Len(kzg.crs_g2) = kzg.degree + 1
  /\ \E secret \in Field :
       /\ kzg.crs_g1 = PowersOf(kzg.g1, secret, kzg.degree)
       /\ kzg.crs_g2 = PowersOf(kzg.g2, secret, kzg.degree)
       /\ kzg.g2_tau = GMul(kzg.g2, secret)
  /\ kzg.degree >= 1 => kzg.g2_tau = kzg.crs_g2[2]

\* C12: in every state of a KZG instance of degree d reached after its first
\* setup by setup, commit, open, multi_open, verify and verify_multi calls,
\* crs_g1 and crs_g2 hold exactly d+1 elements each, g2_tau equals
\* crs_g2[1], and the elements are those of the first setup: once set up, no
\* call changes the reference strings or g2_tau.
C12_ReferenceStringInvariant ==
  /\ [](Ready => ReferenceStringOfOneSecret)
  /\ [][Ready => /\ kzg'.crs_g1 = kzg.crs_g1
                 /\ kzg'.crs_g2 = kzg.crs_g2
                 /\ kzg'.g2_tau = kzg.g2_tau]_vars

---------------------------------------------------------------------------
(* Properties of an ASVC instance (SpecASVC). *)

\* The primitive root of unity of order `degree` that key_gen uses.
KeyGenOmega == get_omega(Zeros(asvc.degree)).val

RECURSIVE RootProduct(_, _, _)
\* The product over the first `upto` listed indices i of (X - omega^i).
RootProduct(omega, indices, upto) ==
  IF upto = 0 THEN <<1>>
  ELSE mul(RootProduct(omega, indices, upto - 1),
           <<FNeg(FPow(omega, indices[upto])), 1>>)

\* C1: for every vector v of n entries and every non-empty list I of distinct
\* indices, verify_position(vector_commit(v), I, [v[i] for i in I],
\* prove_position(I, v)) returns true.
C1_SubvectorCompleteness ==
  (/\ call.op = "verify_position"
   /\ call.subvector = Subvector(call.vector, call.indices))
    => (call.ret.tag = "Ok" /\ call.ret.val = TRUE)

\* C2: for every vector v and every list I of three distinct indices, the
\* aggregate of the three single-index proofs passes
\* verify_position(vector_commit(v), I, [v[i] for i in I], .).
C2_Aggregation ==
  (call.op = "aggregate_proofs" /\ Len(call.indices) = 3)
    => (call.verified.tag = "Ok" /\ call.verified.val = TRUE)

\* C10: the denominator built by prove_position, the one recomputed by
\* verify_position and A(X) of aggregate_proofs all equal the product over
\* the listed indices i of (X - omega^i), omega the root of unity of key_gen.
C10_IndexToRoot ==
  /\ call.op \in {"prove_position", "verify_position"}
       => (/\ call.denominator.tag = "Ok"
           /\ call.denominator.val =
                RootProduct(KeyGenOmega, call.indices, Len(call.indices)))
  /\ call.op = "aggregate_proofs"
       => (/\ call.a_polynomial.tag = "Ok"
           /\ call.a_polynomial.val =
                RootProduct(KeyGenOmega, call.indices, Len(call.indices)))

---------------------------------------------------------------------------
(* Properties of key generation (SpecKeyGen). *)

\* omega^0, .. , omega^(n-1)
RootsOfUnity(omega, n) == [i \in 1 .. n |-> FPow(omega, i - 1)]

\* The vector that is 1 at the code's index i and 0 elsewhere.
UnitVector(n, i) == [k \in 1 .. n |-> IF k = i + 1 THEN 1 ELSE 0]

RECURSIVE BasisAt(_, _, _, _)
\* The Lagrange basis polynomial of roots[i] evaluated at x: the product
\* over j # i (j up to `upto`) of (x - roots[j]) / (roots[i] - roots[j]).
BasisAt(roots, i, x, upto) ==
  IF upto = 0 THEN 1
  ELSE IF upto = i THEN BasisAt(roots, i, x, upto - 1)
  ELSE FMul(BasisAt(roots, i, x, upto - 1),
            FMul(FSub(x, roots[upto]),
                 FInv(FSub(roots[i], roots[upto]))))

\* The crs_g1 commitment of the unique polynomial p of degree < n that takes
\* the value values[i] at omega^i.  The reference string holds g1 * secret^k,
\* so the commitment of p is g1 * p(secret), and p(secret) is read off the
\* Lagrange form of p.
InterpolantCommitment(g1, secret, omega, values) ==
  LET n     == Len(values)
      roots == RootsOfUnity(omega, n)
  IN  GMul(g1, SumF([i \in 1 .. n |->
                       FMul(values[i], BasisAt(roots, i, secret, n))],
                    1, n))

\* C11: for key_gen with a power-of-two degree n and omega of order n, each
\* li_commitment[i] is the commitment of the polynomial that is 1 at omega^i
\* and 0 at every other omega^j, and vector_commit(v) is the commitment of
\* the polynomial of degree < n that takes the value v[i] at omega^i.
C11_VectorCommitInterpolant ==
  (/\ call.op = "key_gen_commit"
   /\ is_power_of_two(call.degree)
   /\ IsOk(get_omega(Zeros(call.degree)))
   /\ Order(get_omega(Zeros(call.degree)).val) = call.degree)
    => LET omega == get_omega(Zeros(call.degree)).val
       IN  /\ call.key.tag = "Ok"
           /\ \A i \in 0 .. (call.degree - 1) :
                call.key.val.proving_key.li_commitment[i + 1] =
                  InterpolantCommitment(call.g1, call.secret, omega,
                                        UnitVector(call.degree, i))
           /\ call.ret.tag = "Ok"
           /\ call.ret.val =
                InterpolantCommitment(call.g1, call.secret, omega,
                                      call.vector)

====
